---- MODULE Spec2Model ----
(***************************************************************************)
(* simplemongo.models.Document: one Document instance bound to one         *)
(* collection.  The live content (the dict the instance is), the snapshot  *)
(* _raw, the flag _in_db, the attribute _history, the collection col and   *)
(* the outcome of the last call are the state; every method of Document    *)
(* is one action.  Spec is the lifecycle of the instance; SpecChanges      *)
(* evaluates the property `changes` over a wider range of values;          *)
(* SpecConstruct starts before the constructor runs and follows the        *)
(* mapping the caller passed to it; SpecTwo has two instances loaded from  *)
(* one record; SpecOne is the lookups one and one_or_raise.                *)
(***************************************************************************)
EXTENDS Integers, Sequences, FiniteSets, TLC

VARIABLES
    self,          \* the live content: a Python dict, field name -> value
    _raw,          \* the snapshot: None or a dict
    _in_db,        \* the persistence flag
    _history,      \* the copy of the content remove() keeps; None before
    __validate__,  \* class attribute: validate on save
    col,           \* the bound collection: _id -> stored record
    next_oid,      \* what the next ObjectId() will be
    op,            \* the last call made on the instance
    exc,           \* the exception it raised, "none" when it returned
    rv,            \* its return value (None when it has none)
    sent,          \* the requests it submitted to the collection, in order
    supplied,      \* the mapping given to the constructor, while its supplier
                   \* still holds it; None otherwise
    alias,         \* which of these objects are one and the same object
    other          \* a second instance loaded from the same record, or None

vars == <<self, _raw, _in_db, _history, __validate__, col, next_oid,
          op, exc, rv, sent, supplied, alias, other>>

-----------------------------------------------------------------------------
(* Bounds *)

MaxOid == 2        \* ObjectId() is called at most MaxOid times
MaxInt == 3        \* stored integers stay within 0..MaxInt
MaxLen == 2        \* a list grows to at most MaxLen elements

-----------------------------------------------------------------------------
(* Python values.  A value is a record [t: type name, v: payload].         *)

None == [None |-> 0]

PyInt(n)   == [t |-> "int",   v |-> n]
PyBool(b)  == [t |-> "bool",  v |-> IF b THEN 1 ELSE 0]
PyStr(n)   == [t |-> "str",   v |-> n]      \* the n-th string
PyFloat(n) == [t |-> "float", v |-> n]      \* the float n + 0.5
NoneV    == [t |-> "NoneType", v |-> 0]
ObjectIdV(n) == [t |-> "ObjectId", v |-> n]
PyList(n) == [t |-> "list", v |-> n]      \* a list object of n elements

\* isinstance(x, int): bool is a subclass of int in Python
IsInstanceInt(x) == x.t \in {"int", "bool"}

IsNumber(x) == x.t \in {"int", "bool", "float"}

\* twice the numeric value of a number
Twice(x) == IF x.t = "float" THEN 2 * x.v + 1 ELSE 2 * x.v

\* Python ==: numbers compare by value whatever their type
PyEq(x, y) ==
    IF IsNumber(x) /\ IsNumber(y) THEN Twice(x) = Twice(y) ELSE x = y

\* Python int - int (bool operands count as 0 and 1)
PySub(x, y) == PyInt(x.v - y.v)

-----------------------------------------------------------------------------
(* dicts are functions from a finite set of field names *)

EmptyDict == [k \in {} |-> NoneV]

DictSet(d, k, x) == [j \in (DOMAIN d) \cup {k} |-> IF j = k THEN x ELSE d[j]]

DictDel(d, k) == [j \in (DOMAIN d) \ {k} |-> d[j]]

\* d.update(e)
DictUpdate(d, e) ==
    [j \in (DOMAIN d) \cup (DOMAIN e) |-> IF j \in DOMAIN e THEN e[j] ELSE d[j]]

DictEq(d, e) ==
    /\ DOMAIN d = DOMAIN e
    /\ \A k \in DOMAIN d : PyEq(d[k], e[k])

\* bool(d) of a dict or None
Truthy(d) == d # None /\ DOMAIN d # {}

\* the fields of d whose value is a mutable object
NestedKeys(d) == {k \in DOMAIN d : d[k].t = "list"}

-----------------------------------------------------------------------------
(* Object identity.  alias.is_raw: self._raw is the supplied mapping;      *)
(* alias.live_snap: the fields whose value is one object in the content    *)
(* and in the snapshot; alias.live_raw: likewise in the content and in the *)
(* supplier's mapping.                                                     *)

NoAlias == [is_raw |-> FALSE, live_snap |-> {}, live_raw |-> {}]

\* after the content's field k is bound to another object, or dropped
Rebound(al, k) ==
    [al EXCEPT !.live_snap = @ \ {k}, !.live_raw = @ \ {k}]

\* after the content is replaced by fresh objects, or cleared
Replaced(al) == [al EXCEPT !.live_snap = {}, !.live_raw = {}]

\* the fields of d whose value copy.deepcopy(d) shares with d
SharedByDeepcopy(d) == {}

-----------------------------------------------------------------------------
(* dstruct.diff_dicts(current, baseline)                                    *)

diff_dicts(current, baseline) ==
    [ added   |-> [k \in (DOMAIN current) \ (DOMAIN baseline) |-> current[k]],
      changed |-> [k \in {j \in (DOMAIN current) \cap (DOMAIN baseline) :
                              ~PyEq(current[j], baseline[j])} |-> current[k]],
      removed |-> (DOMAIN baseline) \ (DOMAIN current) ]

\* every changed field goes to $set
IncKeys_none(cur, raw, diff) == {}

\* the keys of diff['~'] that go to $inc
IncKeys(cur, raw, diff) ==
    {i \in DOMAIN diff.changed : IsInstanceInt(cur[i]) /\ IsInstanceInt(raw[i])}

\* Document.changes
changes(cur, raw) ==
    IF ~Truthy(raw) THEN None
    ELSE
      LET diff  == diff_dicts(cur, raw)
          incs  == IncKeys(cur, raw, diff)
          sets  == (DOMAIN diff.changed) \ incs
          set_  == [k \in (DOMAIN diff.added) \cup sets |-> cur[k]]
          inc   == [k \in incs |-> PySub(cur[k], raw[k])]
          ops   == (IF DOMAIN set_ # {} THEN {"$set"} ELSE {})
                   \cup (IF incs # {} THEN {"$inc"} ELSE {})
                   \cup (IF diff.removed # {} THEN {"$unset"} ELSE {})
      IN [o \in ops |-> CASE o = "$set"   -> set_
                          [] o = "$inc"   -> inc
                          [] o = "$unset" -> diff.removed]

-----------------------------------------------------------------------------
(* The document type of the model:                                         *)
(*   struct = {'count': int, 'tag': str}                                   *)
(*   required_fields = ['count'];  strict_fields = ['count']               *)

struct == [count |-> "int", tag |-> "str"]
required_fields == {"count"}
strict_fields == {"count"}

\* isinstance(x, type)
IsInstance(x, type) ==
    IF type = "int" THEN IsInstanceInt(x) ELSE x.t = type

\* the fields validate() reports
Offending(d) ==
    {f \in DOMAIN struct :
        \/ f \in required_fields /\ f \notin DOMAIN d
        \/ f \in strict_fields /\ f \in DOMAIN d /\ ~IsInstance(d[f], struct[f])}

validate(d) == Offending(d) = {}

-----------------------------------------------------------------------------
(* The collection: the storage collaborator reached through self.col *)

__write_concern__ == [w |-> 1, j |-> FALSE]

\* Document._get_write_options
_get_write_options(kwgs) == DictUpdate(__write_concern__, kwgs)

\* Document.identifier (the caller checks that '_id' is present)
identifier == [_id |-> self["_id"]]

\* Collection.save(doc): full-record upsert under doc['_id']
ColSave(c, doc) ==
    [i \in (DOMAIN c) \cup {doc["_id"]} |-> IF i = doc["_id"] THEN doc ELSE c[i]]

\* Collection.remove(_id)
ColRemove(c, id) == [i \in (DOMAIN c) \ {id} |-> c[i]]

Get(spec, o) == IF o \in DOMAIN spec THEN spec[o] ELSE EmptyDict

Unset(spec) == IF "$unset" \in DOMAIN spec THEN spec["$unset"] ELSE {}

\* the record after $set, $inc and $unset of spec
UpdateRecord(rec, spec) ==
    LET set_  == Get(spec, "$set")
        inc   == Get(spec, "$inc")
        after == DictUpdate(rec, set_)
        added == [k \in (DOMAIN after) \cup (DOMAIN inc) |->
                    IF k \notin DOMAIN inc THEN after[k]
                    ELSE IF k \in DOMAIN after
                         THEN PyInt(after[k].v + inc[k].v) ELSE inc[k]]
    IN [k \in (DOMAIN added) \ Unset(spec) |-> added[k]]

\* the server refuses to $inc a non-number and to modify _id
Applicable(rec, spec) ==
    /\ \A k \in (DOMAIN Get(spec, "$inc")) \cap (DOMAIN rec) :
          rec[k].t \in {"int", "float"}
    /\ "_id" \notin (DOMAIN Get(spec, "$inc")) \cup Unset(spec)
    /\ "_id" \in DOMAIN Get(spec, "$set") => spec["$set"]["_id"] = rec["_id"]

\* the guard that keeps stored integers within the bound
InRange(rec) ==
    \A k \in DOMAIN rec : rec[k].t = "int" => rec[k].v \in 0..MaxInt

\* Collection.update(filter, spec, multi=False) with filter {'_id': id}
ColUpdate(c, id, spec) ==
    IF id \in DOMAIN c
    THEN [i \in DOMAIN c |-> IF i = id THEN UpdateRecord(c[i], spec) ELSE c[i]]
    ELSE c

-----------------------------------------------------------------------------
(* Inputs *)

UserId == PyStr(0)

FieldNames == {"_id", "count", "tag"}

\* the fields a caller assigns and deletes in the lifecycle specification;
\* there the identity is assigned only to a document that has none
Fields == {"count"}

\* values a caller assigns in the lifecycle specification
Assignable ==
    [_id |-> {UserId}, count |-> {PyInt(1), PyInt(2)}, tag |-> {PyStr(1)}]

\* values a caller assigns in the specification of `changes`
AssignableWide ==
    [_id |-> {UserId}, count |-> {PyInt(1), PyInt(3), PyBool(TRUE), NoneV},
     tag |-> {PyStr(1), PyFloat(1)}]

\* the dicts over the field names N with the values A allows
Dicts(N, A) ==
    {d \in UNION {[K -> UNION {A[k] : k \in K}] : K \in SUBSET N} :
        \A k \in DOMAIN d : d[k] \in A[k]}

RawDicts == Dicts(Fields \cup {"_id"}, Assignable)

WideDicts == Dicts(FieldNames, AssignableWide)

-----------------------------------------------------------------------------
\* Construction: Document(raw), Document.new(kwargs), Document(raw, True)

NoCall ==
    /\ op = "init" /\ exc = "none" /\ rv = None /\ sent = <<>>
    /\ _history = None
    /\ supplied = None /\ alias = NoAlias /\ other = None

\* Document(raw=None, from_db=False)
InitDetached(D) ==
    /\ self \in D
    /\ _raw = None
    /\ _in_db = FALSE
    /\ next_oid = 1
    /\ col \in {EmptyDict} \cup
               (IF "_id" \in DOMAIN self THEN {ColSave(EmptyDict, self)} ELSE {})

\* Document.new(kwargs)
InitNew(D) ==
    /\ \E kwargs \in D :
          IF "_id" \notin DOMAIN kwargs
          THEN self = DictSet(kwargs, "_id", ObjectIdV(1)) /\ next_oid = 2
          ELSE self = kwargs /\ next_oid = 1
    /\ _raw = None
    /\ _in_db = FALSE
    /\ col = EmptyDict

\* Document(raw, from_db=True)
InitLoaded(D) ==
    /\ \E raw \in D :
          /\ self = raw
          /\ _raw = raw
          /\ col = IF "_id" \in DOMAIN raw
                   THEN [i \in {raw["_id"]} |-> raw] ELSE EmptyDict
    /\ _in_db = TRUE
    /\ next_oid = 1

Init ==
    /\ __validate__ \in BOOLEAN
    /\ NoCall
    /\ \/ InitDetached(RawDicts)
       \/ InitNew(RawDicts)
       \/ InitLoaded(RawDicts)

InitChanges ==
    /\ __validate__ = TRUE
    /\ NoCall
    /\ \/ InitDetached(WideDicts)
       \/ InitNew(WideDicts)
       \/ InitLoaded(WideDicts)

-----------------------------------------------------------------------------
(* Mutation of the live content by the caller *)

Returns(o, value, requests) ==
    /\ op' = o /\ exc' = "none" /\ rv' = value /\ sent' = requests

Raises(o, e, requests) ==
    /\ op' = o /\ exc' = e /\ rv' = None /\ sent' = requests

\* doc[k] = x
SetItem(k, x) ==
    /\ self' = DictSet(self, k, x)
    /\ alias' = Rebound(alias, k)
    /\ Returns("setitem", None, <<>>)
    /\ UNCHANGED <<_raw, _in_db, _history, __validate__, col, next_oid,
                   supplied, other>>

\* del doc[k]
DelItem(k) ==
    /\ k \in DOMAIN self
    /\ self' = DictDel(self, k)
    /\ alias' = Rebound(alias, k)
    /\ Returns("delitem", None, <<>>)
    /\ UNCHANGED <<_raw, _in_db, _history, __validate__, col, next_oid,
                   supplied, other>>

\* doc.changes
ReadChanges ==
    /\ Returns("changes", changes(self, _raw), <<>>)
    /\ UNCHANGED <<self, _raw, _in_db, _history, __validate__, col, next_oid,
                   supplied, alias, other>>

-----------------------------------------------------------------------------
(* The methods of Document *)

\* the generator repeats itself
ObjectId_again == ObjectIdV(1)

\* ObjectId()
ObjectId == ObjectIdV(next_oid)

\* validate() is not called
Validated_skipped(d) == TRUE

\* save: the validation step lets the content through
Validated(d) == __validate__ => validate(d)

\* the snapshot is taken again at every save
Snapshot_always(raw, doc) == doc

\* the snapshot is not captured
Snapshot_never(raw, doc) == raw

\* save: the snapshot after `if self._raw is None: self._raw = deepcopy(...)`
Snapshot(raw, doc) == IF raw = None THEN doc ELSE raw

\* `self._in_db = True` comes before the write
Save_flag_first ==
    \/ /\ ~Validated(self)
       /\ Raises("save", "StructError", <<>>)
       /\ UNCHANGED <<self, _raw, _in_db, _history, __validate__, col, next_oid,
                      supplied, alias, other>>
    \/ /\ Validated(self)
       /\ LET gen == "_id" \notin DOMAIN self
              doc == IF gen THEN DictSet(self, "_id", ObjectId) ELSE self
              req == [op |-> "save", doc |-> doc,
                      options |-> _get_write_options([manipulate |-> TRUE])]
          IN /\ gen => next_oid <= MaxOid
             /\ self' = doc
             /\ next_oid' = IF gen THEN next_oid + 1 ELSE next_oid
             /\ _raw' = Snapshot(_raw, doc)
             /\ alias' = IF _raw = None
                         THEN [alias EXCEPT !.live_snap = SharedByDeepcopy(doc)]
                         ELSE alias
             /\ _in_db' = TRUE
             /\ \/ /\ col' = ColSave(col, doc)
                   /\ Returns("save", doc["_id"], <<req>>)
                \/ /\ Raises("save", "OperationFailure", <<req>>)
                   /\ UNCHANGED col
       /\ UNCHANGED <<_history, __validate__, supplied, other>>

\* Document.save
Save ==
    \/ /\ ~Validated(self)
       /\ Raises("save", "StructError", <<>>)
       /\ UNCHANGED <<self, _raw, _in_db, _history, __validate__, col, next_oid,
                      supplied, alias, other>>
    \/ /\ Validated(self)
       /\ LET gen == "_id" \notin DOMAIN self
              doc == IF gen THEN DictSet(self, "_id", ObjectId) ELSE self
              req == [op |-> "save", doc |-> doc,
                      options |-> _get_write_options([manipulate |-> TRUE])]
          IN /\ gen => next_oid <= MaxOid
             /\ self' = doc
             /\ next_oid' = IF gen THEN next_oid + 1 ELSE next_oid
             /\ _raw' = Snapshot(_raw, doc)
             /\ alias' = IF _raw = None
                         THEN [alias EXCEPT !.live_snap = SharedByDeepcopy(doc)]
                         ELSE alias
             /\ \/ /\ col' = ColSave(col, doc)
                   /\ _in_db' = TRUE
                   /\ Returns("save", doc["_id"], <<req>>)
                \/ /\ Raises("save", "OperationFailure", <<req>>)
                   /\ UNCHANGED <<col, _in_db>>
       /\ UNCHANGED <<_history, __validate__, supplied, other>>

\* the assertion is missing
Removable_always == TRUE

\* remove: `assert self._in_db` passes
Removable == _in_db

\* Document.remove
Remove ==
    \/ /\ ~Removable
       /\ Raises("remove", "AssertionError", <<>>)
       /\ UNCHANGED <<self, _raw, _in_db, _history, __validate__, col, next_oid,
                      supplied, alias, other>>
    \/ /\ Removable
       /\ _history' = self
       /\ \/ /\ "_id" \notin DOMAIN self
             /\ Raises("remove", "KeyError", <<>>)
             /\ UNCHANGED <<self, _in_db, col, alias>>
          \/ /\ "_id" \in DOMAIN self
             /\ LET req == [op |-> "remove", _id |-> self["_id"],
                            options |-> _get_write_options(EmptyDict)]
                IN \/ /\ col' = ColRemove(col, self["_id"])
                      /\ self' = EmptyDict
                      /\ alias' = Replaced(alias)
                      /\ _in_db' = FALSE
                      /\ Returns("remove", None, <<req>>)
                   \/ /\ Raises("remove", "OperationFailure", <<req>>)
                      /\ UNCHANGED <<self, _in_db, col, alias>>
       /\ UNCHANGED <<_raw, __validate__, next_oid, supplied, other>>

\* `options['multi'] = False` is missing
Options_unforced(kwargs) == _get_write_options(kwargs)

\* update_self: the options passed to Collection.update
Options(kwargs) == DictSet(_get_write_options(kwargs), "multi", FALSE)

\* Document.update_self(spec, kwargs), called as `o`
update_self(spec, kwargs, o) ==
    /\ IF "_id" \notin DOMAIN self
       THEN /\ Raises(o, "KeyError", <<>>)
            /\ UNCHANGED col
       ELSE LET options == Options(kwargs)
                id  == self["_id"]
                req == [op |-> "update", filter |-> identifier,
                        spec |-> spec, options |-> options]
            IN IF id \in DOMAIN col /\ ~Applicable(col[id], spec)
               THEN /\ Raises(o, "OperationFailure", <<req>>)
                    /\ UNCHANGED col
               ELSE /\ col' = ColUpdate(col, id, spec)
                    /\ \A i \in DOMAIN col' : InRange(col'[i])
                    /\ Returns(o, IF o = "update_self"
                                  THEN [n |-> IF id \in DOMAIN col THEN 1 ELSE 0]
                                  ELSE None, <<req>>)
    /\ UNCHANGED <<self, _raw, _in_db, _history, __validate__, next_oid,
                   supplied, alias, other>>

\* what a caller passes as keyword options
CallerOptions == {EmptyDict, [multi |-> TRUE, j |-> TRUE]}

\* what a caller passes to update_self
CallerSpecs == {"$set" :> ("count" :> PyInt(2))}

UpdateSelf(spec, kwargs) == update_self(spec, kwargs, "update_self")

\* `if c is not None` in place of `if c`
HasChanges_not_none(c) == c # None

\* update_changes: `if c`
HasChanges(c) == Truthy(c)

\* Document.update_changes(kwargs)
UpdateChanges(kwargs) ==
    LET c == changes(self, _raw)
    IN IF HasChanges(c)
       THEN update_self(c, kwargs, "update_changes")
       ELSE /\ Returns("update_changes", None, <<>>)
            /\ UNCHANGED <<self, _raw, _in_db, _history, __validate__, col,
                           next_oid, supplied, alias, other>>

\* self.clear() is missing
Refreshed_unclear(cur, doc) == DictUpdate(cur, doc)

\* pull: the content after self.clear(); self.update(doc)
Refreshed(cur, doc) == DictUpdate(EmptyDict, doc)

\* self.clear() comes before cursor.next()
Pull_clear_first ==
    /\ IF "_id" \notin DOMAIN self
       THEN /\ Raises("pull", "KeyError", <<>>)
            /\ UNCHANGED <<self, alias>>
       ELSE LET req == [op |-> "find", filter |-> identifier]
            IN IF self["_id"] \notin DOMAIN col
               THEN /\ Raises("pull", "SimplemongoException", <<req>>)
                    /\ self' = EmptyDict
                    /\ alias' = Replaced(alias)
               ELSE /\ self' = Refreshed(self, col[self["_id"]])
                    /\ alias' = Replaced(alias)
                    /\ Returns("pull", None, <<req>>)
    /\ UNCHANGED <<_raw, _in_db, _history, __validate__, col, next_oid,
                   supplied, other>>

\* Document.pull
Pull ==
    /\ IF "_id" \notin DOMAIN self
       THEN /\ Raises("pull", "KeyError", <<>>)
            /\ UNCHANGED <<self, alias>>
       ELSE LET req == [op |-> "find", filter |-> identifier]
            IN IF self["_id"] \notin DOMAIN col
               THEN /\ Raises("pull", "SimplemongoException", <<req>>)
                    /\ UNCHANGED <<self, alias>>
               ELSE /\ self' = Refreshed(self, col[self["_id"]])
                    /\ alias' = Replaced(alias)
                    /\ Returns("pull", None, <<req>>)
    /\ UNCHANGED <<_raw, _in_db, _history, __validate__, col, next_oid,
                   supplied, other>>

\* another actor deletes a record of the collection
ExternalDelete ==
    /\ \E i \in DOMAIN col : col' = ColRemove(col, i)
    /\ UNCHANGED <<self, _raw, _in_db, _history, __validate__, next_oid,
                   op, exc, rv, sent, supplied, alias, other>>

-----------------------------------------------------------------------------

Next ==
    \/ \E k \in Fields : \E x \in Assignable[k] : SetItem(k, x)
    \/ \E k \in Fields : DelItem(k)
    \/ "_id" \notin DOMAIN self /\ SetItem("_id", UserId)
    \/ Save
    \/ Remove
    \/ \E spec \in CallerSpecs : \E kwargs \in CallerOptions :
          UpdateSelf(spec, kwargs)
    \/ \E kwargs \in CallerOptions : UpdateChanges(kwargs)
    \/ Pull
    \/ ExternalDelete

Spec == Init /\ [][Next]_vars

NextChanges ==
    \/ \E k \in FieldNames : \E x \in AssignableWide[k] : SetItem(k, x)
    \/ \E k \in FieldNames : DelItem(k)
    \/ ReadChanges

SpecChanges == InitChanges /\ [][NextChanges]_vars

-----------------------------------------------------------------------------
(* Construction as a step.  In SpecConstruct the instance starts           *)
(* unconstructed; `supplied` is the argument the caller is about to pass   *)
(* (None: no argument) and stays in the caller's hands afterwards.         *)

\* the mappings a caller constructs a Document from
NestedDicts ==
    Dicts({"_id", "count", "tags"},
          [_id |-> {UserId}, count |-> {PyInt(1)},
           tags |-> {PyList(0), PyList(1)}])

InitConstruct ==
    /\ op = "unconstructed" /\ exc = "none" /\ rv = None /\ sent = <<>>
    /\ self = EmptyDict /\ _raw = None /\ _in_db = FALSE /\ _history = None
    /\ __validate__ = FALSE
    /\ col = EmptyDict /\ next_oid = 1
    /\ supplied \in {None} \cup NestedDicts
    /\ alias = NoAlias /\ other = None

\* the constructor has returned an instance
Constructed == op # "unconstructed" /\ ~(op = "init" /\ exc = "AssertionError")

\* Document(raw=supplied, from_db=from_db)
DocumentInit(from_db) ==
    /\ op = "unconstructed"
    /\ IF supplied = None
       THEN IF from_db
            THEN /\ Raises("init", "AssertionError", <<>>)
                 /\ UNCHANGED <<self, _raw, _in_db, alias>>
            ELSE /\ self' = EmptyDict /\ _raw' = None /\ _in_db' = FALSE
                 /\ alias' = NoAlias
                 /\ Returns("init", None, <<>>)
       ELSE IF from_db
            THEN /\ self' = supplied
                 /\ _raw' = supplied
                 /\ _in_db' = TRUE
                 /\ alias' = [is_raw |-> TRUE,
                              live_snap |-> SharedByDeepcopy(supplied),
                              live_raw |-> SharedByDeepcopy(supplied)]
                 /\ Returns("init", None, <<>>)
            ELSE /\ self' = supplied
                 /\ _raw' = None
                 /\ _in_db' = FALSE
                 /\ alias' = [is_raw |-> FALSE, live_snap |-> {},
                              live_raw |-> NestedKeys(supplied)]
                 /\ Returns("init", None, <<>>)
    /\ UNCHANGED <<_history, __validate__, col, next_oid, supplied, other>>

\* build_instance(kwargs): an instance that is not in the database, has no
\* snapshot and holds the entries of kwargs
build_instance(kwargs) == kwargs

\* Document.new(**supplied)
New ==
    /\ op = "unconstructed"
    /\ supplied # None
    /\ LET gen == "_id" \notin DOMAIN supplied
           kwargs == IF gen THEN DictSet(supplied, "_id", ObjectId)
                     ELSE supplied
       IN /\ self' = build_instance(kwargs)
          /\ next_oid' = IF gen THEN next_oid + 1 ELSE next_oid
    /\ _raw' = None /\ _in_db' = FALSE
    /\ supplied' = None
    /\ alias' = NoAlias
    /\ Returns("new", None, <<>>)
    /\ UNCHANGED <<_history, __validate__, col, other>>

\* doc[k].append(x): the list object that is the value of k grows in place,
\* in every mapping that holds this object
MutateInPlace(k) ==
    /\ Constructed
    /\ k \in NestedKeys(self)
    /\ self[k].v < MaxLen
    /\ self' = [self EXCEPT ![k] = PyList(@.v + 1)]
    /\ supplied' = IF supplied # None /\ k \in alias.live_raw
                   THEN [supplied EXCEPT ![k] = self'[k]] ELSE supplied
    /\ _raw' = IF alias.is_raw THEN supplied'
               ELSE IF _raw # None /\ k \in alias.live_snap
                    THEN [_raw EXCEPT ![k] = self'[k]] ELSE _raw
    /\ Returns("mutate", None, <<>>)
    /\ UNCHANGED <<_in_db, _history, __validate__, col, next_oid, alias,
                   other>>

\* raw[k] = x, by the supplier of raw, after the construction
SupplierSet(k, x) ==
    /\ Constructed
    /\ supplied # None
    /\ supplied' = DictSet(supplied, k, x)
    /\ _raw' = IF alias.is_raw THEN supplied' ELSE _raw
    /\ alias' = [alias EXCEPT !.live_raw = @ \ {k}]
    /\ op' = "supplier" /\ exc' = "none" /\ rv' = None /\ sent' = <<>>
    /\ UNCHANGED <<self, _in_db, _history, __validate__, col, next_oid,
                   other>>

\* raw[k].append(x), by the supplier of raw, after the construction
SupplierMutate(k) ==
    /\ Constructed
    /\ supplied # None
    /\ k \in NestedKeys(supplied)
    /\ supplied[k].v < MaxLen
    /\ supplied' = [supplied EXCEPT ![k] = PyList(@.v + 1)]
    /\ self' = IF k \in alias.live_raw
               THEN [self EXCEPT ![k] = supplied'[k]] ELSE self
    /\ _raw' = IF alias.is_raw THEN supplied' ELSE _raw
    /\ op' = "supplier" /\ exc' = "none" /\ rv' = None /\ sent' = <<>>
    /\ UNCHANGED <<_in_db, _history, __validate__, col, next_oid, alias,
                   other>>

SupplierStep ==
    \/ SupplierSet("count", PyInt(2))
    \/ SupplierMutate("tags")

NextConstruct ==
    \/ DocumentInit(FALSE)
    \/ DocumentInit(TRUE)
    \/ New
    \/ Constructed /\ \E x \in {PyInt(1), PyInt(2)} : SetItem("count", x)
    \/ Constructed /\ SetItem("tags", PyList(0))
    \/ Constructed /\ DelItem("tags")
    \/ MutateInPlace("tags")
    \/ SupplierSet("count", PyInt(2))
    \/ SupplierMutate("tags")
    \/ Constructed /\ Save
    \/ Constructed /\ ReadChanges

SpecConstruct == InitConstruct /\ [][NextConstruct]_vars

-----------------------------------------------------------------------------
(* Two instances loaded from one stored record.  `other` is the second     *)
(* instance: its content, its snapshot and the last call made on it.       *)

\* the integers a caller assigns to the field
Counts == {PyInt(n) : n \in 0..MaxInt}

InitTwo ==
    /\ \E v \in Counts :
          LET rec == [_id |-> UserId, count |-> v]
          IN /\ self = rec /\ _raw = rec
             /\ other = [self |-> rec, _raw |-> rec, op |-> "init"]
             /\ col = [i \in {UserId} |-> rec]
    /\ _in_db = TRUE /\ _history = None /\ __validate__ = FALSE
    /\ next_oid = 1
    /\ op = "init" /\ exc = "none" /\ rv = None /\ sent = <<>>
    /\ supplied = None /\ alias = NoAlias

\* other[k] = x
OtherSetItem(k, x) ==
    /\ other # None
    /\ other.op = "init"
    /\ other' = [other EXCEPT !.self = DictSet(@, k, x), !.op = "setitem"]
    /\ UNCHANGED <<self, _raw, _in_db, _history, __validate__, col, next_oid,
                   op, exc, rv, sent, supplied, alias>>

\* other.update_changes(kwargs)
OtherUpdateChanges(kwargs) ==
    /\ other # None
    /\ other.op = "setitem"
    /\ LET c  == changes(other.self, other._raw)
           id == other.self["_id"]
       IN IF HasChanges(c)
          THEN IF id \in DOMAIN col /\ ~Applicable(col[id], c)
               THEN /\ other' = [other EXCEPT !.op = "OperationFailure"]
                    /\ UNCHANGED col
               ELSE /\ col' = ColUpdate(col, id, c)
                    /\ \A i \in DOMAIN col' : InRange(col'[i])
                    /\ other' = [other EXCEPT !.op = "update_changes"]
          ELSE /\ other' = [other EXCEPT !.op = "update_changes"]
               /\ UNCHANGED col
    /\ UNCHANGED <<self, _raw, _in_db, _history, __validate__, next_oid,
                   op, exc, rv, sent, supplied, alias>>

NextTwo ==
    \/ op = "init" /\ \E x \in Counts : SetItem("count", x)
    \/ op = "setitem" /\ UpdateChanges(EmptyDict)
    \/ \E x \in Counts : OtherSetItem("count", x)
    \/ OtherUpdateChanges(EmptyDict)

SpecTwo == InitTwo /\ [][NextTwo]_vars

-----------------------------------------------------------------------------
(* The class methods one and one_or_raise.  In SpecOne the instance is the *)
(* Document the last lookup returned; there is none when it returned None  *)
(* or raised.                                                              *)

\* the _ids of the stored records, in the order the collection returns them
StoredIds == <<PyStr(0), PyStr(1), PyStr(2)>>

\* the collections the lookups run on
StoredColls ==
    UNION {{[i \in I |-> [_id |-> i, count |-> f[i]]] :
                f \in [I -> {PyInt(1), PyInt(2)}]} :
           I \in SUBSET {StoredIds[n] : n \in 1..Len(StoredIds)}}

\* what a caller passes as spec_or_id
QueryArgs ==
    {None, PyStr(1), [count |-> PyInt(1)],
     [_id |-> PyStr(0), count |-> PyInt(2)]}

InitOne ==
    /\ col \in StoredColls
    /\ op = "unconstructed" /\ exc = "none" /\ rv = None /\ sent = <<>>
    /\ self = EmptyDict /\ _raw = None /\ _in_db = FALSE /\ _history = None
    /\ __validate__ = FALSE /\ next_oid = 1
    /\ supplied = None /\ alias = NoAlias /\ other = None

\* isinstance(x, dict): a value carries its type in t, a dict has field names
IsInstanceDict(x) == "t" \notin DOMAIN x

\* one: the filter passed to find
Normalised(spec_or_id) ==
    IF spec_or_id # None /\ ~IsInstanceDict(spec_or_id)
    THEN [_id |-> spec_or_id] ELSE spec_or_id

\* the record rec satisfies the filter spec (None and {} select everything)
Matches(rec, spec) ==
    \/ spec = None
    \/ \A k \in DOMAIN spec : k \in DOMAIN rec /\ PyEq(rec[k], spec[k])

\* cls.find(spec): the _ids of the matching records, in cursor order
find(c, spec) ==
    LET Selected(i) == i \in DOMAIN c /\ Matches(c[i], spec)
    IN SelectSeq(StoredIds, Selected)

\* the count is checked whatever allow_multiple is
TooMany_always(count, allow_multiple) == count > 1

\* one: `if not allow_multiple: ... if count > 1: raise`
TooMany(count, allow_multiple) == ~allow_multiple /\ count > 1

\* the lookup left no instance
NoInstance ==
    /\ self' = EmptyDict /\ _raw' = None /\ _in_db' = FALSE

\* Document.one(spec_or_id, allow_multiple), called as `o`
one(spec_or_id, allow_multiple, o) ==
    /\ LET spec   == Normalised(spec_or_id)
           cursor == find(col, spec)
           req    == [op |-> "find", filter |-> spec]
       IN IF TooMany(Len(cursor), allow_multiple)
          THEN /\ Raises(o, "MultipleObjectsReturned", <<req>>)
               /\ NoInstance
          ELSE IF Len(cursor) > 0
               THEN /\ self' = col[cursor[1]]
                    /\ _raw' = col[cursor[1]]
                    /\ _in_db' = TRUE
                    /\ Returns(o, col[cursor[1]], <<req>>)
               ELSE /\ NoInstance
                    /\ IF o = "one_or_raise"
                       THEN Raises(o, "ObjectNotFound", <<req>>)
                       ELSE Returns(o, None, <<req>>)
    /\ UNCHANGED <<_history, __validate__, col, next_oid, supplied, alias,
                   other>>

One(spec_or_id, allow_multiple) == one(spec_or_id, allow_multiple, "one")

\* Document.one_or_raise(spec_or_id, allow_multiple)
OneOrRaise(spec_or_id, allow_multiple) ==
    one(spec_or_id, allow_multiple, "one_or_raise")

NextOne ==
    \/ \E q \in QueryArgs : \E am \in BOOLEAN : One(q, am)
    \/ \E q \in QueryArgs : \E am \in BOOLEAN : OneOrRaise(q, am)

SpecOne == InitOne /\ [][NextOne]_vars

-----------------------------------------------------------------------------
(* Properties *)

\* the field names an update instruction c lists under the operator o
KeysOf(c, o) ==
    IF c = None \/ o \notin DOMAIN c THEN {}
    ELSE IF o = "$unset" THEN c[o] ELSE DOMAIN c[o]

\* the last call read `changes` and returned c = rv
ChangesRead == op = "changes" /\ exc = "none"

\* C1: after update_changes() has submitted a non-empty change set and
\* returned, and before the content is touched again, `changes` is empty (so
\* a second update_changes() would submit nothing).
C1_UpdateChangesIdempotent ==
    (op = "update_changes" /\ exc = "none" /\ sent # <<>>)
        => ~Truthy(changes(self, _raw))

\* C2: a field present in the content and in the snapshot with different
\* values is under $inc with (new - old), and not under $set, when both
\* values are of type int; it is under $set with the new value, and not under
\* $inc, when either value is of another type (str, bool, None, float).
C2_IncrementDetection ==
    (ChangesRead /\ _raw # None) =>
        \A k \in (DOMAIN self) \cap (DOMAIN _raw) :
            ~PyEq(self[k], _raw[k]) =>
                IF self[k].t = "int" /\ _raw[k].t = "int"
                THEN /\ k \in KeysOf(rv, "$inc")
                     /\ rv["$inc"][k] = PyInt(self[k].v - _raw[k].v)
                     /\ k \notin KeysOf(rv, "$set")
                ELSE /\ k \in KeysOf(rv, "$set")
                     /\ rv["$set"][k] = self[k]
                     /\ k \notin KeysOf(rv, "$inc")

\* C3: with a snapshot, every key only in the content is under $set with its
\* value, every key only in the snapshot is under $unset, a key with equal
\* values on both sides is under no operator, no key is under two operators,
\* no operator is present with no keys, and an unmodified document yields an
\* empty instruction set.
C3_ChangesShape ==
    (ChangesRead /\ _raw # None) =>
        /\ \A k \in (DOMAIN self) \ (DOMAIN _raw) :
              k \in KeysOf(rv, "$set") /\ rv["$set"][k] = self[k]
        /\ \A k \in (DOMAIN _raw) \ (DOMAIN self) : k \in KeysOf(rv, "$unset")
        /\ \A k \in (DOMAIN self) \cap (DOMAIN _raw) :
              PyEq(self[k], _raw[k]) =>
                  k \notin KeysOf(rv, "$set") \cup KeysOf(rv, "$inc")
                             \cup KeysOf(rv, "$unset")
        /\ KeysOf(rv, "$set") \cap KeysOf(rv, "$inc") = {}
        /\ KeysOf(rv, "$set") \cap KeysOf(rv, "$unset") = {}
        /\ KeysOf(rv, "$inc") \cap KeysOf(rv, "$unset") = {}
        /\ rv # None => \A o \in DOMAIN rv : KeysOf(rv, o) # {}
        /\ DictEq(self, _raw) => ~Truthy(rv)

\* C4: `changes` is None exactly when the document has no snapshot; with a
\* snapshot it is an update instruction.
C4_NoneIffNoSnapshot ==
    ChangesRead => (rv = None <=> _raw = None)

\* C5: a successful save() of a document that is not in the database and has
\* no snapshot ends with _in_db true, an _id in the content (the one it had,
\* or a generated one when it had none, nothing else changed), the content
\* submitted and stored under that _id, the _id returned, and the snapshot
\* equal to the content written.
C5_FirstSave ==
    [][(Save /\ ~_in_db /\ _raw = None /\ exc' = "none") =>
          /\ _in_db'
          /\ "_id" \in DOMAIN self'
          /\ self' = IF "_id" \in DOMAIN self THEN self
                     ELSE DictSet(self, "_id", self'["_id"])
          /\ Len(sent') = 1 /\ sent'[1].op = "save" /\ sent'[1].doc = self'
          /\ self'["_id"] \in DOMAIN col' /\ col'[self'["_id"]] = self'
          /\ rv' = self'["_id"]
          /\ _raw' = self']_vars

\* a new document has just been saved for the first time under a generated _id
C5_Saved ==
    /\ op = "save" /\ exc = "none" /\ _in_db
    /\ "_id" \in DOMAIN self /\ self["_id"] = ObjectIdV(1)
    /\ _raw = self
    /\ self["_id"] \in DOMAIN col /\ col[self["_id"]] = self

\* C6: with validation enabled and content that violates the schema, save()
\* raises the structural error, submits nothing, and leaves the content (no
\* _id generated), the snapshot, _in_db and the collection as they were; in
\* every other case, validation disabled included, save() does not raise it
\* and submits the write.
C6_ValidationAborts ==
    [][Save =>
          IF __validate__ /\ ~validate(self)
          THEN /\ exc' = "StructError" /\ sent' = <<>>
               /\ UNCHANGED <<self, _raw, _in_db, col, next_oid>>
          ELSE /\ exc' # "StructError"
               /\ Len(sent') = 1 /\ sent'[1].op = "save"]_vars

\* save() has just failed validation on a document without _id and snapshot
C6_Aborted ==
    /\ op = "save" /\ exc = "StructError" /\ sent = <<>>
    /\ __validate__ /\ ~validate(self)
    /\ "_id" \notin DOMAIN self /\ _raw = None /\ ~_in_db

\* C7: remove() on a document whose _in_db is false fails, submits nothing
\* and leaves content, snapshot, _in_db and the collection as they were.
C7_RemovePrecondition ==
    [][(Remove /\ ~_in_db) =>
          /\ exc' = "AssertionError" /\ sent' = <<>>
          /\ UNCHANGED <<self, _raw, _in_db, _history, col>>]_vars

\* a second remove() has just failed on a removed document
C7_SecondRemove ==
    /\ op = "remove" /\ exc = "AssertionError"
    /\ ~_in_db /\ _history # None /\ self = EmptyDict

\* the document is removed and was given no identifier since
Removed == ~_in_db /\ _history # None /\ "_id" \notin DOMAIN self

\* C8: a successful remove() submits a delete for the document's _id,
\* empties the content and clears _in_db; a successful save() of a removed
\* document generates an _id different from the removed one, writes the
\* content under it and sets _in_db.
C8_RemoveThenReuse ==
    [][/\ (Remove /\ _in_db /\ exc' = "none") =>
             /\ Len(sent') = 1 /\ sent'[1].op = "remove"
             /\ sent'[1]._id = self["_id"]
             /\ self["_id"] \notin DOMAIN col'
             /\ self' = EmptyDict
             /\ ~_in_db'
       /\ (Save /\ Removed /\ exc' = "none") =>
             /\ "_id" \in DOMAIN self'
             /\ self'["_id"] # _history["_id"]
             /\ self'["_id"] \notin DOMAIN col
             /\ Len(sent') = 1 /\ sent'[1].doc = self'
             /\ col'[self'["_id"]] = self'
             /\ _in_db']_vars

\* a document saved under a generated _id was removed and saved again
C8_Reused ==
    /\ op = "save" /\ exc = "none" /\ _in_db
    /\ _history # None /\ "_id" \in DOMAIN _history
    /\ _history["_id"] = ObjectIdV(1)
    /\ "_id" \in DOMAIN self /\ self["_id"] = ObjectIdV(2)

\* C9: pull() on a document whose _id has no record in the collection raises
\* the 'document deleted' exception and leaves content, snapshot and _in_db
\* as they were.
C9_PullVanished ==
    [][(Pull /\ "_id" \in DOMAIN self /\ self["_id"] \notin DOMAIN col) =>
          /\ exc' = "SimplemongoException"
          /\ UNCHANGED <<self, _raw, _in_db>>]_vars

\* pull() has just failed on a persisted document with fields
C9_Vanished ==
    /\ op = "pull" /\ exc = "SimplemongoException"
    /\ _in_db /\ _raw # None
    /\ "_id" \in DOMAIN self /\ self["_id"] \notin DOMAIN col
    /\ "count" \in DOMAIN self

\* C10: after a successful pull() the content is exactly the stored record,
\* the _id is the one the document had, and snapshot, _in_db and the
\* collection are as they were.
C10_PullRefreshes ==
    [][(Pull /\ exc' = "none") =>
          /\ self' = col[self["_id"]]
          /\ self'["_id"] = self["_id"]
          /\ UNCHANGED <<_raw, _in_db, col>>]_vars

\* pull() has just brought back a stored value that differs from the snapshot
C10_Pulled ==
    /\ op = "pull" /\ exc = "none" /\ _in_db /\ _raw # None
    /\ "_id" \in DOMAIN self /\ self["_id"] \in DOMAIN col
    /\ self = col[self["_id"]]
    /\ "count" \in DOMAIN self /\ "count" \in DOMAIN _raw
    /\ ~PyEq(self["count"], _raw["count"])

\* a step of update_changes()
UpdateChangesStep == \E kwargs \in CallerOptions : UpdateChanges(kwargs)

\* C11: every request submitted by update_self() and by update_changes() is
\* an update whose filter is {_id: the document's _id} and whose options
\* carry multi = False, whatever options the caller passed.
C11_AtMostOne ==
    op \in {"update_self", "update_changes"} =>
        \A i \in 1..Len(sent) :
            /\ sent[i].op = "update"
            /\ sent[i].filter = [_id |-> self["_id"]]
            /\ "multi" \in DOMAIN sent[i].options
            /\ sent[i].options["multi"] = FALSE

\* update_self() called with multi=True, j=True has submitted its update
C11_Forced ==
    /\ op = "update_self" /\ exc = "none" /\ Len(sent) = 1
    /\ sent[1].options = [w |-> 1, j |-> TRUE, multi |-> FALSE]
    /\ sent[1].filter = [_id |-> self["_id"]]

\* C12 as stated: update_changes() submits exactly one update, equal to
\* `changes`, whenever `changes` is non-empty, and submits nothing and raises
\* nothing when it is empty or None; a loaded, unmodified document submits
\* nothing.
C12_OneUpdateIffChanges ==
    [][UpdateChangesStep =>
          /\ IF Truthy(changes(self, _raw))
             THEN /\ Len(sent') = 1 /\ sent'[1].op = "update"
                  /\ sent'[1].spec = changes(self, _raw)
             ELSE sent' = <<>> /\ exc' = "none"
          /\ (op = "init" /\ _in_db) => (sent' = <<>> /\ exc' = "none")]_vars

\* C12 amended: as stated when the document has an _id; when `changes` is
\* non-empty and the document has no _id, update_changes() raises KeyError
\* and submits nothing.
C12_OneUpdateIffChangesAndId ==
    [][UpdateChangesStep =>
          /\ IF Truthy(changes(self, _raw))
             THEN IF "_id" \in DOMAIN self
                  THEN /\ Len(sent') = 1 /\ sent'[1].op = "update"
                       /\ sent'[1].spec = changes(self, _raw)
                  ELSE sent' = <<>> /\ exc' = "KeyError"
             ELSE sent' = <<>> /\ exc' = "none"
          /\ (op = "init" /\ _in_db) => (sent' = <<>> /\ exc' = "none")]_vars

\* update_changes() has just raised KeyError on a document with changes
C12_NoIdentifier ==
    /\ op = "update_changes" /\ exc = "KeyError" /\ sent = <<>>
    /\ "_id" \notin DOMAIN self
    /\ Truthy(changes(self, _raw))

\* C15: a document without snapshot gets one only by a save() that
\* completes successfully (so a document that was not loaded and whose only
\* save() attempts failed has none).
C15_NoSnapshotBeforeSuccess ==
    [][(_raw = None /\ ~(Save /\ exc' = "none")) => _raw' = None]_vars

\* C19: once the document has a snapshot, no step changes it.
C19_WriteOnce ==
    [][_raw # None => _raw' = _raw]_vars

\* a removed document was saved again and still has its first snapshot
C19_KeptAcrossRemove ==
    /\ op = "save" /\ exc = "none" /\ _in_db /\ _history # None
    /\ _raw # None /\ "_id" \in DOMAIN _raw
    /\ "_id" \in DOMAIN self /\ self["_id"] # _raw["_id"]

\* C20: _in_db implies a snapshot; _in_db becomes true only by a save()
\* whose write returned and false only by a remove() that returned (it is
\* true from the start for a loaded document).
C20_InDbLifecycle ==
    /\ [](_in_db => _raw # None)
    /\ [][/\ (~_in_db /\ _in_db') =>
                (Save /\ exc' = "none" /\ Len(sent') = 1)
          /\ (_in_db /\ ~_in_db') =>
                (Remove /\ exc' = "none" /\ Len(sent') = 1)]_vars

\* a save() has failed at the write and left the document out of the database
C20_WriteFailed ==
    /\ op = "save" /\ exc = "OperationFailure" /\ Len(sent) = 1
    /\ ~_in_db /\ _raw # None

\* C13: whenever there is a snapshot, no value of the content is an object
\* of the snapshot; assignment and in-place mutation of the content leave
\* the snapshot unchanged, and after the in-place mutation of a field
\* `changes` sets the field whenever its value now differs from the
\* snapshot's.
C13_SnapshotIsolated ==
    /\ [](_raw # None => alias.live_snap = {})
    /\ [][/\ (MutateInPlace("tags") /\ _raw # None) =>
                /\ _raw' = _raw
                /\ "tags" \in KeysOf(changes(self', _raw'), "$set")
                     <=> ("tags" \notin DOMAIN _raw
                            \/ self'["tags"] # _raw["tags"])
          /\ (_raw # None /\ op' \in {"setitem", "delitem"}) =>
                _raw' = _raw]_vars

\* C14: after Document(raw, from_db=True), a step of the supplier of raw
\* changes neither the snapshot nor `changes`.
C14_LoadedSnapshotIndependent ==
    [][(SupplierStep /\ _in_db) =>
          /\ _raw' = _raw
          /\ changes(self', _raw') = changes(self, _raw)]_vars

\* C16: Document(raw) gives a document not in the database, without
\* snapshot, whose content is raw; Document.new(fields) likewise, with the
\* caller's _id kept or an ObjectId added; Document(raw, True) gives a
\* document in the database whose content and snapshot are raw and whose
\* `changes` is the empty dict.
C16_ConstructionPaths ==
    [][/\ DocumentInit(FALSE) =>
             /\ ~_in_db' /\ _raw' = None
             /\ self' = IF supplied = None THEN EmptyDict ELSE supplied
       /\ New =>
             /\ ~_in_db' /\ _raw' = None
             /\ DOMAIN self' = DOMAIN supplied \cup {"_id"}
             /\ \A k \in DOMAIN supplied : self'[k] = supplied[k]
             /\ "_id" \notin DOMAIN supplied => self'["_id"] = ObjectIdV(next_oid)
       /\ (DocumentInit(TRUE) /\ exc' = "none") =>
             /\ _in_db' /\ self' = supplied /\ _raw' = supplied
             /\ changes(self', _raw') = EmptyDict]_vars

\* C17: when both instances loaded from the record with count = v have
\* assigned count once and update_changes() has returned on both, the
\* stored count is v + (x1 - v) + (x2 - v), x1 and x2 the assigned values.
C17_IncrementsCompose ==
    (/\ other # None
     /\ op = "update_changes" /\ exc = "none"
     /\ other.op = "update_changes") =>
        col[UserId]["count"] =
            PyInt(self["count"].v + other.self["count"].v - _raw["count"].v)

\* both instances have submitted a non-zero increment
C17_BothIncremented ==
    /\ other # None
    /\ op = "update_changes" /\ exc = "none" /\ Len(sent) = 1
    /\ other.op = "update_changes"
    /\ self["count"] # _raw["count"]
    /\ other.self["count"] # other._raw["count"]
    /\ col[UserId]["count"] # self["count"]
    /\ col[UserId]["count"] # other.self["count"]

\* the position of the stored _id i in cursor order
Pos(i) == CHOOSE n \in 1..Len(StoredIds) : StoredIds[n] = i

\* the _ids of the records of c that the argument q of one() selects
Selects(c, q) ==
    IF q = None THEN DOMAIN c
    ELSE IF "t" \in DOMAIN q THEN {i \in DOMAIN c : c[i]["_id"] = q}
    ELSE {i \in DOMAIN c :
             \A k \in DOMAIN q : k \in DOMAIN c[i] /\ c[i][k] = q[k]}

\* C18: one() and one_or_raise() raise MultipleObjectsReturned, and return
\* no document, when allow_multiple is false and more than one record is
\* selected; they return the selected record, loaded, when there is exactly
\* one; with no record selected one() returns None and one_or_raise()
\* raises ObjectNotFound; with allow_multiple they return the first selected
\* record; a value that is not a dict selects by _id.
C18_SingleResult ==
    [][\A q \in QueryArgs : \A am \in BOOLEAN :
          (One(q, am) \/ OneOrRaise(q, am)) =>
             LET M == Selects(col, q)
             IN /\ (~am /\ Cardinality(M) > 1) =>
                      /\ exc' = "MultipleObjectsReturned"
                      /\ rv' = None /\ ~_in_db'
                /\ Cardinality(M) = 1 =>
                      /\ exc' = "none" /\ _in_db'
                      /\ self'["_id"] \in M
                      /\ self' = col[self'["_id"]]
                      /\ _raw' = self' /\ rv' = self'
                /\ M = {} =>
                      /\ rv' = None /\ ~_in_db'
                      /\ exc' = IF op' = "one" THEN "none"
                                ELSE "ObjectNotFound"
                /\ (am /\ M # {}) =>
                      /\ exc' = "none" /\ _in_db'
                      /\ self'["_id"] \in M
                      /\ self' = col[self'["_id"]]
                      /\ \A i \in M : Pos(self'["_id"]) <= Pos(i)]_vars

\* one() has refused a filter that selects several records
C18_Refused ==
    /\ op = "one" /\ exc = "MultipleObjectsReturned"
    /\ Len(sent) = 1 /\ sent[1].filter = [count |-> PyInt(1)]
    /\ Cardinality({i \in DOMAIN col : col[i]["count"] = PyInt(1)}) > 1
    /\ ~_in_db /\ rv = None

====
